---------------------------- MODULE Spec2Model ----------------------------
(***************************************************************************)
(* A model of pz_fileio.File (src/src/pz_fileio/File.py): one handle on    *)
(* one filesystem path, its optional read stream, and the operations that  *)
(* read, write, create and delete the file.  The methods that only derive *)
(* a value from the path or the file size (GetBasename, GetAbsolutePath,   *)
(* GetFileSize, GetMimeType, IsEmpty) and WriteAsCsv are left out.         *)
(*                                                                         *)
(* Text is a sequence of one-character strings.  Python values are tagged  *)
(* records: None, bool, int, str, list, dict, and "object" for any value   *)
(* outside the JSON types (for example an io.BytesIO).                     *)
(***************************************************************************)
EXTENDS Integers, Sequences, FiniteSets, TLC

-----------------------------------------------------------------------------
(* Bounds of the model                                                     *)

\* Append is disabled once the file would grow beyond MaxLen characters.
MaxLen == 4

-----------------------------------------------------------------------------
(* Python values                                                           *)

PyNone == [t |-> "None"]
PyBool(b) == [t |-> "bool", v |-> b]
PyInt(n) == [t |-> "int", v |-> n]
PyStr(s) == [t |-> "str", v |-> s]
PyList(s) == [t |-> "list", v |-> s]
PyDict(s) == [t |-> "dict", v |-> s]
PyObject == [t |-> "object"]
PySelf == [t |-> "self"]

NL == "\n"
QUOTE == "\""
SPACE == " "

Digits == <<"0", "1", "2", "3", "4", "5", "6", "7", "8", "9">>

IsDigit(c) == \E d \in 1..10 : Digits[d] = c

DigitVal(c) == (CHOOSE d \in 1..10 : Digits[d] = c) - 1

RECURSIVE Repeat(_, _)
Repeat(s, n) == IF n = 0 THEN <<>> ELSE s \o Repeat(s, n - 1)

\* s[i..] (1-based), empty when i is beyond the end
From(s, i) == SubSeq(s, i, Len(s))

\* the character at i, or the empty sequence at the end: s[i:i+1]
At(s, i) == IF i \in 1..Len(s) THEN s[i] ELSE ""


-----------------------------------------------------------------------------
(* json.dump(content, f, ensure_ascii=False, indent=4): the chunks that the *)
(* encoder writes to the file one after the other.  A value outside the    *)
(* JSON types makes the encoder raise TypeError when it reaches it; the    *)
(* chunks written before that stay in the file.  Every encoder returns     *)
(* [ok, out]: whether it finished, and the text written.                   *)

RECURSIVE IntStr(_)
IntStr(n) ==
    IF n < 0 THEN <<"-">> \o IntStr(0 - n)
    ELSE IF n < 10 THEN <<Digits[n + 1]>>
    ELSE IntStr(n \div 10) \o <<Digits[(n % 10) + 1]>>

\* py_encode_basestring: the strings of the model hold no character that
\* the encoder escapes
EncodeStr(s) == <<QUOTE>> \o s \o <<QUOTE>>

\* '\n' + _indent * _current_indent_level, with _indent = 4 spaces
NewlineIndent(level) == <<NL>> \o Repeat(<<SPACE>>, 4 * level)

RECURSIVE IterEncode(_, _)
RECURSIVE IterEncodeList(_, _, _, _)
RECURSIVE IterEncodeDict(_, _, _, _)

\* the items of a list from index i on; buf is the text pending before the
\* next item ('[' and the indent, or the separator)
IterEncodeList(lst, i, level, buf) ==
    IF i > Len(lst)
    THEN [ok |-> TRUE, out |-> NewlineIndent(level - 1) \o <<"]">>]
    ELSE LET item == IterEncode(lst[i], level)
             rest == IterEncodeList(lst, i + 1, level,
                                    <<",">> \o NewlineIndent(level))
         IN  IF item.ok
             THEN [ok |-> rest.ok, out |-> buf \o item.out \o rest.out]
             ELSE [ok |-> FALSE, out |-> buf \o item.out]

\* the items of a dict from index i on; a dict is a sequence of <<key, value>>
IterEncodeDict(dct, i, level, buf) ==
    IF i > Len(dct)
    THEN [ok |-> TRUE, out |-> NewlineIndent(level - 1) \o <<"}">>]
    ELSE LET key == EncodeStr(dct[i][1]) \o <<":", SPACE>>
             item == IterEncode(dct[i][2], level)
             rest == IterEncodeDict(dct, i + 1, level,
                                    <<",">> \o NewlineIndent(level))
         IN  IF item.ok
             THEN [ok |-> rest.ok, out |-> buf \o key \o item.out \o rest.out]
             ELSE [ok |-> FALSE, out |-> buf \o key \o item.out]

IterEncode(o, level) ==
    CASE o.t = "str" -> [ok |-> TRUE, out |-> EncodeStr(o.v)]
      [] o.t = "None" -> [ok |-> TRUE, out |-> <<"n", "u", "l", "l">>]
      [] o.t = "bool" ->
            [ok |-> TRUE,
             out |-> IF o.v THEN <<"t", "r", "u", "e">>
                     ELSE <<"f", "a", "l", "s", "e">>]
      [] o.t = "int" -> [ok |-> TRUE, out |-> IntStr(o.v)]
      [] o.t = "list" ->
            IF o.v = <<>> THEN [ok |-> TRUE, out |-> <<"[", "]">>]
            ELSE IterEncodeList(o.v, 1, level + 1,
                                <<"[">> \o NewlineIndent(level + 1))
      [] o.t = "dict" ->
            IF o.v = <<>> THEN [ok |-> TRUE, out |-> <<"{", "}">>]
            ELSE IterEncodeDict(o.v, 1, level + 1,
                                <<"{">> \o NewlineIndent(level + 1))
      [] OTHER -> [ok |-> FALSE, out |-> <<>>]

JsonDump(content) == IterEncode(content, 0)

-----------------------------------------------------------------------------
(* json.load(fp) == json.loads(fp.read()): JSONDecoder.decode and the      *)
(* scanner.  Every scanner returns [ok, val, end]: whether a value was     *)
(* read at position i, the value, and the position after it.  A failed     *)
(* scan is the decoder raising JSONDecodeError.                            *)

Fail == [ok |-> FALSE, val |-> PyNone, end |-> 0]

IsWs(c) == c \in {SPACE, NL, "\t", "\r"}

\* WHITESPACE.match(s, i).end()
RECURSIVE SkipWs(_, _)
SkipWs(s, i) == IF i <= Len(s) /\ IsWs(s[i]) THEN SkipWs(s, i + 1) ELSE i

\* whether the characters of word stand in s at position i
Matches(s, i, word) ==
    /\ i + Len(word) - 1 <= Len(s)
    /\ SubSeq(s, i, i + Len(word) - 1) = word

\* scanstring, from the character after the opening quote; strict mode
\* rejects a control character inside a string
RECURSIVE ScanString(_, _, _)
ScanString(s, i, acc) ==
    IF i > Len(s) THEN Fail
    ELSE IF s[i] = QUOTE THEN [ok |-> TRUE, val |-> PyStr(acc), end |-> i + 1]
    ELSE IF s[i] \in {NL, "\t", "\r", "\\"} THEN Fail
    ELSE ScanString(s, i + 1, Append(acc, s[i]))

\* the digits of NUMBER_RE's integer part, from position i
RECURSIVE ScanDigits(_, _, _)
ScanDigits(s, i, n) ==
    IF i <= Len(s) /\ IsDigit(s[i])
    THEN ScanDigits(s, i + 1, 10 * n + DigitVal(s[i]))
    ELSE [ok |-> TRUE, val |-> PyInt(n), end |-> i]

\* NUMBER_RE: (-?(?:0|[1-9]\d*)); the texts of the model hold no fraction
\* and no exponent
ScanNumber(s, i) ==
    LET neg == At(s, i) = "-"
        j == IF neg THEN i + 1 ELSE i
        r == IF At(s, j) = "0" THEN [ok |-> TRUE, val |-> PyInt(0), end |-> j + 1]
             ELSE IF j <= Len(s) /\ IsDigit(s[j]) THEN ScanDigits(s, j, 0)
             ELSE Fail
    IN  IF r.ok /\ neg THEN [r EXCEPT !.val = PyInt(0 - r.val.v)] ELSE r

RECURSIVE ScanOnce(_, _)
RECURSIVE JSONArray(_, _, _)
RECURSIVE JSONObject(_, _, _)

\* the values of an array from position i (whitespace skipped) on
JSONArray(s, i, values) ==
    LET v == ScanOnce(s, i)
        j == SkipWs(s, v.end)
    IN  IF ~v.ok THEN Fail
        ELSE IF At(s, j) = "]"
        THEN [ok |-> TRUE, val |-> PyList(Append(values, v.val)), end |-> j + 1]
        ELSE IF At(s, j) = ","
        THEN JSONArray(s, SkipWs(s, j + 1), Append(values, v.val))
        ELSE Fail

\* the pairs of an object from position i (whitespace skipped) on
JSONObject(s, i, pairs) ==
    LET key == IF At(s, i) = QUOTE THEN ScanString(s, i + 1, <<>>) ELSE Fail
        c == SkipWs(s, key.end)
        v == IF key.ok /\ At(s, c) = ":" THEN ScanOnce(s, SkipWs(s, c + 1)) ELSE Fail
        j == SkipWs(s, v.end)
        got == Append(pairs, <<key.val.v, v.val>>)
    IN  IF ~v.ok THEN Fail
        ELSE IF At(s, j) = "}"
        THEN [ok |-> TRUE, val |-> PyDict(got), end |-> j + 1]
        ELSE IF At(s, j) = ","
        THEN JSONObject(s, SkipWs(s, j + 1), got)
        ELSE Fail

\* py_make_scanner's _scan_once
ScanOnce(s, i) ==
    LET c == At(s, i)
    IN  CASE c = QUOTE -> ScanString(s, i + 1, <<>>)
          [] c = "{" ->
                LET j == SkipWs(s, i + 1)
                IN  IF At(s, j) = "}"
                    THEN [ok |-> TRUE, val |-> PyDict(<<>>), end |-> j + 1]
                    ELSE JSONObject(s, j, <<>>)
          [] c = "[" ->
                LET j == SkipWs(s, i + 1)
                IN  IF At(s, j) = "]"
                    THEN [ok |-> TRUE, val |-> PyList(<<>>), end |-> j + 1]
                    ELSE JSONArray(s, j, <<>>)
          [] c = "n" /\ Matches(s, i, <<"n", "u", "l", "l">>) ->
                [ok |-> TRUE, val |-> PyNone, end |-> i + 4]
          [] c = "t" /\ Matches(s, i, <<"t", "r", "u", "e">>) ->
                [ok |-> TRUE, val |-> PyBool(TRUE), end |-> i + 4]
          [] c = "f" /\ Matches(s, i, <<"f", "a", "l", "s", "e">>) ->
                [ok |-> TRUE, val |-> PyBool(FALSE), end |-> i + 5]
          [] c = "-" \/ IsDigit(c) -> ScanNumber(s, i)
          [] OTHER -> Fail

\* JSONDecoder.decode: one value, whitespace around it, nothing after it
JsonLoads(s) ==
    LET v == ScanOnce(s, SkipWs(s, 1))
    IN  IF v.ok /\ SkipWs(s, v.end) = Len(s) + 1
        THEN [ok |-> TRUE, val |-> v.val]
        ELSE [ok |-> FALSE, val |-> PyNone]

-----------------------------------------------------------------------------
(* csv.reader(f) with the default dialect (delimiter ',', quotechar '"',   *)
(* doublequote, not strict): the reader's state machine, fed the           *)
(* characters of each line of the file and then an end-of-line mark.  The  *)
(* parser state is [state, field, fields, rows].                           *)

CsvStart == [state |-> "START_RECORD", field |-> <<>>, fields |-> <<>>, rows |-> <<>>]

\* parse_save_field
SaveField(ps) == [ps EXCEPT !.fields = Append(ps.fields, ps.field), !.field = <<>>]

\* parse_add_char
AddChar(ps, c) == [ps EXCEPT !.field = Append(ps.field, c)]

\* Reader_iternext returns the record when a line ends in START_RECORD
EmitRecord(ps) ==
    [ps EXCEPT !.rows = Append(ps.rows, ps.fields), !.fields = <<>>, !.field = <<>>]

\* parse_process_char for a character of the line
CsvChar(ps, c) ==
    LET st == IF ps.state = "START_RECORD" /\ c # NL THEN "START_FIELD" ELSE ps.state
    IN  CASE st = "START_RECORD" -> [ps EXCEPT !.state = "EAT_CRNL"]
          [] st = "START_FIELD" ->
                IF c = NL THEN [SaveField(ps) EXCEPT !.state = "EAT_CRNL"]
                ELSE IF c = QUOTE THEN [ps EXCEPT !.state = "IN_QUOTED_FIELD"]
                ELSE IF c = "," THEN [SaveField(ps) EXCEPT !.state = "START_FIELD"]
                ELSE [AddChar(ps, c) EXCEPT !.state = "IN_FIELD"]
          [] st = "IN_FIELD" ->
                IF c = NL THEN [SaveField(ps) EXCEPT !.state = "EAT_CRNL"]
                ELSE IF c = "," THEN [SaveField(ps) EXCEPT !.state = "START_FIELD"]
                ELSE AddChar(ps, c)
          [] st = "IN_QUOTED_FIELD" ->
                IF c = QUOTE THEN [ps EXCEPT !.state = "QUOTE_IN_QUOTED_FIELD"]
                ELSE AddChar(ps, c)
          [] st = "QUOTE_IN_QUOTED_FIELD" ->
                IF c = QUOTE THEN [AddChar(ps, c) EXCEPT !.state = "IN_QUOTED_FIELD"]
                ELSE IF c = "," THEN [SaveField(ps) EXCEPT !.state = "START_FIELD"]
                ELSE IF c = NL THEN [SaveField(ps) EXCEPT !.state = "EAT_CRNL"]
                ELSE [AddChar(ps, c) EXCEPT !.state = "IN_FIELD"]
          [] st = "EAT_CRNL" ->
                IF c = NL THEN ps ELSE [ps EXCEPT !.state = "ERROR"]
          [] OTHER -> ps

\* parse_process_char for the end-of-line mark, and the record returned when
\* the line ended a record
CsvEol(ps) ==
    LET q == CASE ps.state \in {"START_FIELD", "IN_FIELD", "QUOTE_IN_QUOTED_FIELD"} ->
                    [SaveField(ps) EXCEPT !.state = "START_RECORD"]
               [] ps.state = "EAT_CRNL" -> [ps EXCEPT !.state = "START_RECORD"]
               [] OTHER -> ps
    IN  IF q.state = "START_RECORD" THEN EmitRecord(q) ELSE q

\* the lines of s from character i on; a last line without newline ends at
\* the end of input, where a field left open is saved
RECURSIVE CsvRun(_, _, _)
CsvRun(s, i, ps) ==
    IF ps.state = "ERROR" THEN ps
    ELSE IF i > Len(s)
    THEN LET q == IF i > 1 /\ s[i - 1] # NL THEN CsvEol(ps) ELSE ps
         IN  IF q.state # "START_RECORD" /\ (q.field # <<>> \/ q.state = "IN_QUOTED_FIELD")
             THEN EmitRecord(SaveField(q))
             ELSE q
    ELSE LET p == CsvChar(ps, s[i])
         IN  CsvRun(s, i + 1, IF s[i] = NL /\ p.state # "ERROR" THEN CsvEol(p) ELSE p)

\* [row for row in csv.reader(f)]: [ok, val], ok false when csv.Error is raised
CsvRows(s) ==
    LET ps == CsvRun(s, 1, CsvStart)
    IN  [ok |-> ps.state # "ERROR",
         val |-> PyList([r \in 1..Len(ps.rows) |->
                     PyList([k \in 1..Len(ps.rows[r]) |-> PyStr(ps.rows[r][k])])])]

\* str.splitlines(keepends) as readlines() does it: the lines of s from
\* character i on, each with its newline
RECURSIVE SplitLines(_, _, _)
SplitLines(s, i, line) ==
    IF i > Len(s) THEN (IF line = <<>> THEN <<>> ELSE <<PyStr(line)>>)
    ELSE IF s[i] = NL THEN <<PyStr(Append(line, NL))>> \o SplitLines(s, i + 1, <<>>)
    ELSE SplitLines(s, i + 1, Append(line, s[i]))

-----------------------------------------------------------------------------
(* The handle and the filesystem                                           *)

VARIABLES
    Path,       \* self.Path: the characters of the joined path
    Content,    \* self.Content: None, or a text stream [closed, pos, stale]
    dirExists,  \* whether the directory GetDirname() names exists
    fexists,    \* whether a file exists at Path
    fdata,      \* the characters of the file at Path
    backups,    \* the timestamps of the backup files that exist
    dropped,    \* a stream the handle opened and no longer refers to is still open
    inScope,    \* between __enter__ and __exit__ of a with block
    hist,       \* the last calls, each [op, arg, exc]; see Watch
    ret         \* what the last call returned (None when it raised)

vars == <<Path, Content, dirExists, fexists, fdata, backups, dropped, inScope, hist, ret>>

\* the state the operations read and change
Cur ==
    [Content |-> Content, dirExists |-> dirExists, fexists |-> fexists,
     fdata |-> fdata, backups |-> backups, dropped |-> dropped]

NoStream == [kind |-> "None", closed |-> FALSE, pos |-> 0, stale |-> FALSE]

\* open(self.Path, 'r', encoding='utf-8') on an existing file
NewStream == [kind |-> "stream", closed |-> FALSE, pos |-> 0, stale |-> FALSE]

\* a file object is truthy whether open or closed; None is not
Truthy(c) == c.kind = "stream"

IsOpen(c) == c.kind = "stream" /\ ~c.closed

\* an operation's outcome: the state after it, the exception it raised
\* ("none" when it returned) and the value it returned
Returns(s, val) == [s |-> s, exc |-> "none", val |-> val]

Raises(s, exc) == [s |-> s, exc |-> exc, val |-> PyNone]

\* os.path.join(*path)
RECURSIVE Join(_)
Join(path) ==
    IF Len(path) = 1 THEN path[1].v
    ELSE path[1].v \o <<"/">> \o Join(Tail(path))

\* the index of the last "/" of p at or before i, 0 when there is none
RECURSIVE LastSlash(_, _)
LastSlash(p, i) == IF i = 0 \/ p[i] = "/" THEN i ELSE LastSlash(p, i - 1)

\* os.path.dirname(self.Path): the head up to the last slash, without it
GetDirname(p) ==
    LET i == LastSlash(p, Len(p))
    IN  IF i <= 1 THEN SubSeq(p, 1, i) ELSE SubSeq(p, 1, i - 1)

\* whether open(self.Path, mode) finds the directory to create the file in:
\* the working directory for a bare file name, no directory for ""
ParentExists(s) ==
    IF Path = <<>> THEN FALSE
    ELSE IF GetDirname(Path) = <<>> THEN TRUE
    ELSE s.dirExists

\* os.path.exists(self.Path)
Exists(s) == s.fexists

-----------------------------------------------------------------------------
(* The methods of File, each a function from the state before the call to  *)
(* the outcome [s, exc, val]                                               *)

\* self.Content = <new value>: the stream Content referred to is closed by
\* nobody; if it was open it stays open until the garbage collector
\* finalizes it
Rebind(s, stream) ==
    [s EXCEPT !.Content = stream, !.dropped = s.dropped \/ IsOpen(s.Content)]

\* Open() as it would be if it kept a stream the handle already holds
OpenKeepsStream(s) ==
    IF Truthy(s.Content) THEN Returns(s, PySelf)
    ELSE IF Exists(s) THEN Returns(Rebind(s, NewStream), PySelf)
    ELSE Returns(Rebind(s, NoStream), PySelf)

Open(s) ==
    IF Exists(s) THEN Returns(Rebind(s, NewStream), PySelf)
    ELSE Returns(Rebind(s, NoStream), PySelf)

Close(s) ==
    IF Truthy(s.Content) THEN Returns([s EXCEPT !.Content = NoStream], PyNone)
    ELSE Returns(s, PyNone)

Enter(s) == IF ~Truthy(s.Content) THEN Open(s) ELSE Returns(s, PySelf)

Exit(s) ==
    IF Truthy(s.Content) THEN Returns([s EXCEPT !.Content.closed = TRUE], PyNone)
    ELSE Returns(s, PyNone)

\* os.makedirs(self.GetDirname(), exist_ok=True) raises FileNotFoundError for
\* the empty directory name of a bare file name; open(self.Path, 'x') then
\* creates the file unless it exists
Create(s) ==
    IF GetDirname(Path) = <<>> THEN Raises(s, "FileNotFoundError")
    ELSE IF s.fexists THEN Returns([s EXCEPT !.dirExists = TRUE], PySelf)
    ELSE Returns([s EXCEPT !.dirExists = TRUE, !.fexists = TRUE, !.fdata = <<>>],
                 PySelf)

\* self.Content.close() is called whatever Content is; os.remove unlinks the
\* file, and the stream that was open on it refers to no file of the path
Delete(s) ==
    IF Exists(s)
    THEN IF s.Content.kind = "None" THEN Raises(s, "AttributeError")
         ELSE Returns([s EXCEPT !.Content.closed = TRUE, !.Content.stale = TRUE,
                                !.fexists = FALSE, !.fdata = <<>>], PySelf)
    ELSE Returns(s, PySelf)

Recreate(s) ==
    LET d == IF Exists(s) THEN Delete(s) ELSE Returns(s, PySelf)
        c == Create(d.s)
    IN  IF d.exc # "none" THEN d
        ELSE IF c.exc # "none" THEN c
        ELSE Open(c.s)

\* the stream's position after read() or readlines() reached the end of file
AtEnd(s) ==
    [s EXCEPT !.Content.pos = IF s.Content.pos < Len(s.fdata) THEN Len(s.fdata)
                              ELSE s.Content.pos]

\* self.Content.read(): the text from the stream's position to the end of
\* the file; ValueError on a closed stream.  An open stream is always on
\* the file at the path: Delete() closes the stream before it unlinks
StreamRead(s) ==
    IF s.Content.closed THEN Raises(s, "ValueError")
    ELSE Returns(AtEnd(s), PyStr(From(s.fdata, s.Content.pos + 1)))

Read(s) == IF Truthy(s.Content) THEN StreamRead(s) ELSE Returns(s, PyNone)

ReadLines(s) ==
    LET r == StreamRead(s)
    IN  IF ~Truthy(s.Content) THEN Returns(s, PyNone)
        ELSE IF r.exc # "none" THEN r
        ELSE Returns(r.s, PyList(SplitLines(r.val.v, 1, <<>>)))

\* the text of the lines, each followed by a newline
RECURSIVE LinesText(_)
LinesText(content) ==
    IF content = <<>> THEN <<>>
    ELSE Head(content).v \o <<NL>> \o LinesText(Tail(content))

\* open(self.Path, 'a') creates the file if there is none
FileAppend(s, content) ==
    IF ~ParentExists(s) THEN Raises(s, "FileNotFoundError")
    ELSE Returns([s EXCEPT !.fexists = TRUE,
                           !.fdata = s.fdata \o LinesText(content)], PySelf)

\* open(self.Path, 'w') creates the file, or truncates the one there
Overwrite(s, content) ==
    IF ~ParentExists(s) THEN Raises(s, "FileNotFoundError")
    ELSE Returns([s EXCEPT !.fexists = TRUE, !.fdata = LinesText(content)], PySelf)

\* json.load(self.Content) calls self.Content.read(): AttributeError when
\* Content is None; only JSONDecodeError is caught
ReadAsJson(s) ==
    LET r == StreamRead(s)
        v == JsonLoads(r.val.v)
    IN  IF s.Content.kind = "None" THEN Raises(s, "AttributeError")
        ELSE IF r.exc # "none" THEN r
        ELSE Returns(r.s, IF v.ok THEN v.val ELSE PyNone)

\* isinstance(content, (dict, list, str, int, float, bool, type(None)))
IsJsonType(content) == content.t \in {"dict", "list", "str", "int", "bool", "None"}

\* the file is opened for writing, and so truncated, before json.dump runs;
\* what the encoder wrote before it raised is in the file
WriteAsJson(s, content) ==
    LET d == JsonDump(content)
        w == [s EXCEPT !.fexists = TRUE, !.fdata = d.out]
    IN  IF ~IsJsonType(content) THEN Raises(s, "TypeError")
        ELSE IF ~ParentExists(s) THEN Raises(s, "FileNotFoundError")
        ELSE IF d.ok THEN Returns(w, PySelf)
        ELSE Raises(w, "TypeError")

\* opens the file itself; FileNotFoundError and csv.Error are caught
ReadAsCsv(s) ==
    LET rows == CsvRows(s.fdata)
    IN  IF ~s.fexists \/ ~rows.ok THEN Returns(s, PyNone)
        ELSE Returns(s, rows.val)

\* hashlib.new(algorithm) over the chunks of the file: the digest is left
\* uninterpreted, a value that stands for the hexdigest of these characters
Hash(s) ==
    IF ~Exists(s) THEN Returns(s, PyNone)
    ELSE Returns(s, [t |-> "hexdigest", v |-> s.fdata])

\* f"{self.Path}.{time.strftime('%Y%m%d%H%M%S')}.bak"
BackupPath(stamp) == Path \o <<".">> \o stamp \o <<".", "b", "a", "k">>

\* the original is opened first: FileNotFoundError is caught before the
\* backup file is created.  The backup holds what the original holds; no
\* operation of the handle reads it back, and the state keeps its name only
Backup(s, stamp) ==
    IF ~s.fexists THEN Returns(s, PyNone)
    ELSE Returns([s EXCEPT !.backups = s.backups \cup {stamp}],
                 PyStr(BackupPath(stamp)))

-----------------------------------------------------------------------------
(* The inputs of the calls                                                 *)

\* File(*path): None, a bare file name, a directory and a file name
PathArgs ==
    { <<PyNone>>,
      <<PyStr(<<"f">>)>>,
      <<PyStr(<<"d">>), PyStr(<<"f">>)>> }

\* what a file found at construction holds
InitData == { <<>>, <<"x", NL>> }

\* Append(*content) and Overwrite(*content)
LineArgs ==
    { <<>>,
      <<PyStr(<<"a">>)>>,
      <<PyStr(<<"b">>)>>,
      <<PyStr(<<"a">>), PyStr(<<"b">>)>> }

\* time.strftime('%Y%m%d%H%M%S') at the time of a Backup() call
Stamps == { <<"2", "0", "2", "4", "0", "1", "0", "2", "0", "3", "0", "4", "0", "5">> }

KDict == PyDict(<< <<<<"k">>, PyList(<<PyInt(1), PyInt(2), PyInt(3)>>)>> >>)

\* WriteAsJson(content): JSON values, an object of no JSON type, and a list
\* that holds one
JsonArgs ==
    { PyNone, PyInt(42), PyStr(<<"s">>), KDict,
      PyObject, PyList(<<PyInt(1), PyObject>>) }

-----------------------------------------------------------------------------
(* The state machine: one action per call on the handle                    *)

\* The call sequences the properties below speak of.  hist holds the last
\* call and, before it, the calls that begin one of these sequences with it.
CallSequences ==
    { <<"WriteAsJson", "Open", "ReadAsJson">>,
      <<"Append", "Append", "Read">>,
      <<"Overwrite", "Read">>,
      <<"Create", "Exists">> }

Ops(h) == [i \in 1..Len(h) |-> h[i].op]

Begins(h) ==
    \E q \in CallSequences : Len(h) <= Len(q) /\ SubSeq(q, 1, Len(h)) = Ops(h)

\* the longest end of h, of three calls at most, that begins a sequence;
\* the last call in any case
Watch(h) ==
    LET n == Len(h)
    IN  IF n >= 3 /\ Begins(SubSeq(h, n - 2, n)) THEN SubSeq(h, n - 2, n)
        ELSE IF n >= 2 /\ Begins(SubSeq(h, n - 1, n)) THEN SubSeq(h, n - 1, n)
        ELSE SubSeq(h, n, n)

\* the last call
Last == hist[Len(hist)]

Init ==
    /\ \E path \in PathArgs :
          /\ Path = (IF path[1].t = "None" THEN <<>> ELSE Join(path))
          /\ hist = <<[op |-> "__init__", arg |-> PyList(path), exc |-> "none"]>>
    /\ dirExists \in BOOLEAN
    /\ GetDirname(Path) = <<>> => dirExists
    /\ fexists \in BOOLEAN
    /\ fexists => ParentExists([dirExists |-> dirExists])
    /\ fdata \in (IF fexists THEN InitData ELSE {<<>>})
    /\ Content = (IF fexists THEN NewStream ELSE NoStream)
    /\ backups = {}
    /\ dropped = FALSE
    /\ inScope = FALSE
    /\ ret = PyNone

\* the call op(arg) with outcome r
Call(op, arg, r) ==
    /\ Content' = r.s.Content
    /\ dirExists' = r.s.dirExists
    /\ fexists' = r.s.fexists
    /\ fdata' = r.s.fdata
    /\ backups' = r.s.backups
    /\ dropped' = r.s.dropped
    /\ hist' = Watch(Append(hist, [op |-> op, arg |-> arg, exc |-> r.exc]))
    /\ ret' = r.val
    /\ UNCHANGED Path

\* with File(...) as f: enters the block
CallEnter ==
    /\ ~inScope
    /\ inScope' = TRUE
    /\ Call("__enter__", PyNone, Enter(Cur))

\* the block is left, normally or by the exception the last call raised
CallExit ==
    /\ inScope
    /\ inScope' = FALSE
    /\ Call("__exit__", PyBool(Last.exc # "none"), Exit(Cur))

CallOpen == Call("Open", PyNone, Open(Cur)) /\ UNCHANGED inScope

CallClose == Call("Close", PyNone, Close(Cur)) /\ UNCHANGED inScope

CallExists ==
    Call("Exists", PyNone, Returns(Cur, PyBool(Exists(Cur)))) /\ UNCHANGED inScope

CallCreate == Call("Create", PyNone, Create(Cur)) /\ UNCHANGED inScope

CallDelete == Call("Delete", PyNone, Delete(Cur)) /\ UNCHANGED inScope

CallRecreate == Call("Recreate", PyNone, Recreate(Cur)) /\ UNCHANGED inScope

CallRead == Call("Read", PyNone, Read(Cur)) /\ UNCHANGED inScope

CallReadLines == Call("ReadLines", PyNone, ReadLines(Cur)) /\ UNCHANGED inScope

CallAppend ==
    \E content \in LineArgs :
        /\ Len(fdata) + Len(LinesText(content)) <= MaxLen
        /\ Call("Append", PyList(content), FileAppend(Cur, content))
        /\ UNCHANGED inScope

CallOverwrite ==
    \E content \in LineArgs :
        /\ Call("Overwrite", PyList(content), Overwrite(Cur, content))
        /\ UNCHANGED inScope

CallReadAsJson == Call("ReadAsJson", PyNone, ReadAsJson(Cur)) /\ UNCHANGED inScope

CallWriteAsJson ==
    \E content \in JsonArgs :
        /\ Call("WriteAsJson", content, WriteAsJson(Cur, content))
        /\ UNCHANGED inScope

CallReadAsCsv == Call("ReadAsCsv", PyNone, ReadAsCsv(Cur)) /\ UNCHANGED inScope

CallHash == Call("Hash", PyNone, Hash(Cur)) /\ UNCHANGED inScope

CallBackup ==
    \E stamp \in Stamps :
        /\ Call("Backup", PyStr(stamp), Backup(Cur, stamp))
        /\ UNCHANGED inScope

\* the garbage collector finalizes the streams the handle dropped: it closes
\* them, at a time the handle does not control
Finalize ==
    /\ dropped
    /\ dropped' = FALSE
    /\ UNCHANGED <<Path, Content, dirExists, fexists, fdata, backups, inScope, hist, ret>>

Next ==
    \/ CallEnter
    \/ CallExit
    \/ CallOpen
    \/ CallClose
    \/ CallExists
    \/ CallCreate
    \/ CallDelete
    \/ CallRecreate
    \/ CallRead
    \/ CallReadLines
    \/ CallAppend
    \/ CallOverwrite
    \/ CallReadAsJson
    \/ CallWriteAsJson
    \/ CallReadAsCsv
    \/ CallHash
    \/ CallBackup
    \/ Finalize

Spec == Init /\ [][Next]_vars

-----------------------------------------------------------------------------
(* Properties                                                              *)

\* the last call of the state after a step
LastNext == hist'[Len(hist')]

\* a step that is a call on the handle, not the garbage collector's
CallStep == ~(dropped /\ ~dropped')

\* the values of the JSON round trip: null, 42, "s", {"k": [1, 2, 3]}
RoundTripValues == { PyNone, PyInt(42), PyStr(<<"s">>), KDict }

\* C1: Delete() returns the handle and never raises, whatever the content
\* stream is, and the file is gone afterwards.
C1_DeleteReturnsHandle ==
    Last.op = "Delete" => (Last.exc = "none" /\ ret = PySelf /\ ~fexists)

\* C2: Overwrite(a, b) and then Read() on the same handle returns
\* a + newline + b + newline, whatever the handle's state was.
C2_OverwriteThenRead ==
    ( /\ Ops(hist) = <<"Overwrite", "Read">>
      /\ hist[1].exc = "none"
      /\ Len(hist[1].arg.v) = 2 )
    => (hist[2].exc = "none" /\ ret = PyStr(LinesText(hist[1].arg.v)))

\* C3: WriteAsJson(v) with a v that cannot be serialized (v of no JSON type,
\* or a container that holds such a value) raises TypeError and leaves the
\* file's existence and content as they were; stated for a path whose
\* directory exists.
C3_WriteAsJsonLeavesFile ==
    [][ ( /\ CallStep
          /\ LastNext.op = "WriteAsJson"
          /\ ~JsonDump(LastNext.arg).ok
          /\ ParentExists(Cur) )
        => (LastNext.exc = "TypeError" /\ fexists' = fexists /\ fdata' = fdata) ]_vars

\* C4: after __exit__, no read stream the handle opened is still open: not
\* the one it holds, and none it held before.
C4_ExitReleasesStreams ==
    Last.op = "__exit__" => (~IsOpen(Content) /\ ~dropped)

\* C5: for a path that names a file, Create() does not raise, the file
\* exists after it (Exists() right after it is true), and a file that
\* existed keeps its content.
C5_CreateIdempotent ==
    [][ Path # <<>>
        => /\ (CallStep /\ LastNext.op = "Create")
               => (LastNext.exc = "none" /\ fexists' /\ (fexists => fdata' = fdata))
           /\ Ops(hist') = <<"Create", "Exists">> => ret' = PyBool(TRUE) ]_vars

\* C6: WriteAsJson(v), Open(), ReadAsJson() in a row on the same handle, for
\* v among null, 42, "s", {"k": [1, 2, 3]} and a WriteAsJson that returned:
\* ReadAsJson returns a value equal to v, whatever the stream was before.
C6_JsonRoundTrip ==
    ( /\ Ops(hist) = <<"WriteAsJson", "Open", "ReadAsJson">>
      /\ hist[1].exc = "none"
      /\ hist[1].arg \in RoundTripValues )
    => (hist[3].exc = "none" /\ ret = hist[1].arg)

\* the round trip of {"k": [1, 2, 3]} has run
C6_Witness ==
    /\ Ops(hist) = <<"WriteAsJson", "Open", "ReadAsJson">>
    /\ hist[1].exc = "none"
    /\ hist[1].arg = KDict
    /\ ret = KDict

\* C7: when no file exists at the path, Read, ReadLines, ReadAsJson,
\* ReadAsCsv, Hash and Backup return None and Delete returns the handle;
\* none raises, and none creates the file or a backup file.
C7_MissingFileIsSoft ==
    [][ (CallStep /\ ~fexists)
        => /\ LastNext.op \in {"Read", "ReadLines", "ReadAsJson", "ReadAsCsv",
                               "Hash", "Backup"}
               => (LastNext.exc = "none" /\ ret' = PyNone
                   /\ ~fexists' /\ backups' = backups)
           /\ LastNext.op = "Delete"
               => (LastNext.exc = "none" /\ ret' = PySelf
                   /\ ~fexists' /\ backups' = backups) ]_vars

\* C8: Append(a), Append(b), Read() in a row on the same handle, the file
\* absent or empty before the first (so that it now holds the two lines):
\* Read returns a + newline + b + newline.
C8_AppendAppendRead ==
    ( /\ Ops(hist) = <<"Append", "Append", "Read">>
      /\ hist[1].exc = "none" /\ hist[2].exc = "none"
      /\ Len(hist[1].arg.v) = 1 /\ Len(hist[2].arg.v) = 1
      /\ fdata = LinesText(hist[1].arg.v \o hist[2].arg.v) )
    => (hist[3].exc = "none" /\ ret = PyStr(fdata))

\* C9: Read() never raises; it returns None exactly when the handle holds no
\* open stream, and the whole content of the file otherwise.
C9_ReadAllOrNone ==
    Last.op = "Read"
    => /\ Last.exc = "none"
       /\ IF IsOpen(Content) THEN ret = PyStr(fdata) ELSE ret = PyNone

\* C10: the content stream is absent, or an open stream on the file that is
\* at the path now; never a closed stream, never a stream on a file deleted
\* or replaced since.
C10_StreamOpenOnPath ==
    \/ Content.kind = "None"
    \/ (IsOpen(Content) /\ ~Content.stale /\ fexists)

=============================================================================
